---- MODULE Spec2Model ----
(***************************************************************************)
(* Avalanche vote records (vote.go) and the registry of open targets that  *)
(* feeds them.  A VoteRecord is the triple (votes, consider, confidence)   *)
(* of unsigned 8, 8 and 16 bit fields; regsiterVote is modelled on those   *)
(* widths, bit for bit.                                                    *)
(***************************************************************************)
EXTENDS Integers, Sequences, FiniteSets, TLC

VARIABLES
    voteRecords,  \* the registry: target hash -> VoteRecord of the open targets
    vr,           \* a VoteRecord driven directly through regsiterVote
    script,       \* which driver feeds the votes
    step,         \* number of votes the scripted driver has fed so far
    call,         \* the last regsiterVote call: its argument, result and the
                  \* confidence and status around it
    targets,      \* the block targets inserted: hash -> Score of the Target
    polled,       \* the inventory list last handed to sortBlockInvsByWork
    invs,         \* the slice sortBlockInvsByWork works on, as it left it
    panicked,     \* "none", or the panic that has aborted the process
    pc,           \* goroutine -> the statement it is at
    snowballMu,   \* the node's lock around its Processor
    snowball,     \* the hashes of the targets the node's Processor reconciles
    localInvs,    \* the poll loop's local invs
    incoming,     \* number of transactions queued in the node's channel
    quitCh,       \* TRUE once the node's quit channel is closed
    doneWg,       \* the counter of the node's WaitGroup
    networkEndpointsMu, \* the lock around the shared endpoint list
    networkEndpoints,   \* the shared endpoint list
    endpoints     \* the refresher's local endpoints

voteVars == <<voteRecords, vr, step, call>>

pollVars == <<targets, polled, invs>>

nodeVars ==
    <<pc, snowballMu, snowball, localInvs, incoming, quitCh, doneWg,
      networkEndpointsMu, networkEndpoints, endpoints>>

vars == <<voteVars, script, pollVars, panicked, nodeVars>>

----------------------------------------------------------------------------
(* Constants of the program *)

AvalancheFinalizationScore == 128

StatusInvalid == 0
StatusRejected == 1
StatusAccepted == 2
StatusFinalized == 3

----------------------------------------------------------------------------
(* Bounds of the model *)

\* votes the call-budget driver may feed to a fresh record
MaxCalls == 9
\* votes the scripted drivers S2 and S3 keep feeding
MaxScriptCalls == 140

\* A uint32 error code is held as its two 16-bit halves, err = hi * 2^16 + lo.
U32(hi, lo) == [hi |-> hi, lo |-> lo]

\* error codes fed to regsiterVote: 0 affirms, 1 and 0x7FFFFFFF deny,
\* 0x80000000 and 0xFFFFFFFF (-1) are negative as int32
ErrCodes ==
    {U32(0, 0), U32(0, 1), U32(32767, 65535), U32(32768, 0), U32(65535, 65535)}

\* the votes the registry is fed: yes, no, undecided (-1)
RegistryErrCodes == {U32(0, 0), U32(0, 1), U32(65535, 65535)}

\* the hashes of the targets offered to the registry
Hashes == {42}

----------------------------------------------------------------------------
(* Fixed-width arithmetic *)

Bit(x, k) == (x \div (2 ^ k)) % 2

\* x & y, bit by bit, for operands below 2^16
BitAnd(x, y) ==
    LET b(k) == Bit(x, k) * Bit(y, k) * (2 ^ k)
    IN  b(0) + b(1) + b(2) + b(3) + b(4) + b(5) + b(6) + b(7)
      + b(8) + b(9) + b(10) + b(11) + b(12) + b(13) + b(14) + b(15)

\* x & y for uint8 operands, tabulated once (entry x * 256 + y + 1)
And8Table == [i \in 1..65536 |-> BitAnd((i - 1) \div 256, (i - 1) % 256)] \o <<>>

And8(x, y) == And8Table[x * 256 + y + 1]

\* x | y for uint8 operands
Or8(x, y) == x + y - And8(x, y)

\* the uint8 and uint16 results of an arithmetic expression
Uint8(x) == x % 256
Uint16(x) == x % 65536

\* err == 0 of a uint32
IsZero(err) == err.hi = 0 /\ err.lo = 0

\* int32(err) >= 0 of a uint32: the conversion keeps the bits, bit 31 is the sign
Int32NonNegative(err) == Bit(err.hi, 15) = 0

boolToUint8(b) == IF b THEN 1 ELSE 0

boolToUint16(b) == Uint16(boolToUint8(b))

\* for ; i > 0; i &= (i - 1) { count++ }
RECURSIVE countBitsLoop(_, _)
countBitsLoop(i, count) ==
    IF i > 0 THEN countBitsLoop(And8(i, Uint8(i - 1)), count + 1) ELSE count

\* a loop that shifts instead of clearing the lowest set bit counts the length
\* of i, not its set bits
RECURSIVE countShiftsLoop(_, _)
countShiftsLoop(i, count) ==
    IF i > 0 THEN countShiftsLoop(i \div 2, count + 1) ELSE count

countBitsLength(i) == countShiftsLoop(i, 0)

countBits8(i) == countBitsLoop(i, 0)

\* countBits8 tabulated once (entry i + 1)
CountBits8Table == [i \in 1..256 |-> countBits8(i - 1)] \o <<>>

CountBits8(i) == CountBits8Table[i + 1]

----------------------------------------------------------------------------
(* VoteRecord *)

NewVoteRecord(accepted) ==
    [votes |-> 170, consider |-> 0, confidence |-> boolToUint16(accepted)]

isAccepted(r) == And8(r.confidence % 256, 1) = 1

\* the confidence field without the shift that drops the polarity bit
getConfidenceRaw(r) == r.confidence

\* vr.confidence >> 1
getConfidence(r) == r.confidence \div 2

hasFinalized(r) == getConfidence(r) >= AvalancheFinalizationScore

\* a status that tests finalized alone and forgets the polarity of a finalized
\* record
statusFinalizedFirst(r) ==
    IF hasFinalized(r) THEN StatusFinalized
    ELSE IF isAccepted(r) THEN StatusAccepted ELSE StatusRejected

status(r) ==
    LET finalized == hasFinalized(r)
        accepted == isAccepted(r)
    IN  CASE ~finalized /\ accepted -> StatusAccepted
          [] ~finalized /\ ~accepted -> StatusRejected
          [] finalized /\ accepted -> StatusFinalized
          [] finalized /\ ~accepted -> StatusInvalid

\* vr.votes = (vr.votes << 1) | boolToUint8(err == 0)
ShiftVotes(r, err) == Or8(Uint8(r.votes * 2), boolToUint8(IsZero(err)))

\* the comparison without the conversion to int32: err >= 0 holds of every uint32
ShiftConsiderUnsigned(r, err) ==
    Or8(Uint8(r.consider * 2), boolToUint8(TRUE))

\* vr.consider = (vr.consider << 1) | boolToUint8(int32(err) >= 0)
ShiftConsider(r, err) ==
    Or8(Uint8(r.consider * 2), boolToUint8(Int32NonNegative(err)))

\* the record after the two shifts
Shifted(r, err) ==
    [r EXCEPT !.votes = ShiftVotes(r, err), !.consider = ShiftConsider(r, err)]

\* a threshold of six of eight instead of seven
RoundYesLoose(votes, consider) ==
    CountBits8(And8(And8(votes, consider), 255)) > 5

\* yes := countBits8(vr.votes&vr.consider&0xff) > 6
RoundYes(votes, consider) ==
    CountBits8(And8(And8(votes, consider), 255)) > 6

\* the negation without the - 1
ComplementNegate(votes) == Uint8(0 - votes)

\* (-vr.votes-1) in uint8 arithmetic
Complement8(votes) == Uint8(0 - votes - 1)

\* a bound of five instead of six on the disagreeing positions
RoundInconclusiveStrict(votes, consider) ==
    CountBits8(And8(And8(Complement8(votes), consider), 255)) < 6

\* countBits8((-vr.votes-1)&vr.consider&0xff) <= 6
RoundInconclusive(votes, consider) ==
    CountBits8(And8(And8(Complement8(votes), consider), 255)) <= 6

\* the comparison off by one: > instead of ==
AgreeingRoundLate(r) ==
    LET bumped == [r EXCEPT !.confidence = Uint16(@ + 2)]
    IN  [rec |-> bumped,
         ret |-> getConfidence(bumped) > AvalancheFinalizationScore]

\* vr.confidence += 2; return vr.getConfidence() == AvalancheFinalizationScore
AgreeingRound(r) ==
    LET bumped == [r EXCEPT !.confidence = Uint16(@ + 2)]
    IN  [rec |-> bumped,
         ret |-> getConfidence(bumped) = AvalancheFinalizationScore]

\* a flip that writes the new polarity and keeps the streak
FlippingRoundKeepsStreak(r, yes) ==
    [rec |-> [r EXCEPT !.confidence = 2 * getConfidence(r) + boolToUint16(yes)],
     ret |-> TRUE]

\* a flip that changes the record and reports no change
FlippingRoundSilent(r, yes) ==
    [rec |-> [r EXCEPT !.confidence = boolToUint16(yes)], ret |-> FALSE]

\* a flip that writes the polarity it leaves instead of the one it takes
FlippingRoundInverted(r, yes) ==
    [rec |-> [r EXCEPT !.confidence = boolToUint16(~yes)], ret |-> TRUE]

\* vr.confidence = boolToUint16(yes); return true
FlippingRound(r, yes) ==
    [rec |-> [r EXCEPT !.confidence = boolToUint16(yes)], ret |-> TRUE]

\* the rest of regsiterVote on the shifted record r, given yes
RoundOutcome(r, yes) ==
    IF ~yes /\ RoundInconclusive(r.votes, r.consider)
    THEN [rec |-> r, ret |-> FALSE]
    ELSE IF isAccepted(r) = yes
    THEN AgreeingRound(r)
    ELSE FlippingRound(r, yes)

Decide(r) == RoundOutcome(r, RoundYes(r.votes, r.consider))

\* regsiterVote: the record after the call and the value returned
regsiterVote(r, err) == Decide(Shifted(r, err))

----------------------------------------------------------------------------
(* The record of the last call: its argument, the value returned, the      *)
(* confidence before it, the record after it and, for a call through the   *)
(* registry, the status update handed back (NoUpdate when there is none)   *)

NoUpdate == -1

NoCall ==
    [op |-> "none", err |-> U32(0, 0), ret |-> FALSE, before |-> 0,
     after |-> NewVoteRecord(FALSE), update |-> NoUpdate]

VoteCall(r, err, out, update) ==
    [op |-> "vote", err |-> err, ret |-> out.ret, before |-> r.confidence,
     after |-> out.rec, update |-> update]

----------------------------------------------------------------------------
(* TargetRegistry *)

NoRecords == [h \in {} |-> NewVoteRecord(FALSE)]

hasTarget(h) == h \in DOMAIN voteRecords

\* addTarget(t): insert (t.Hash, NewVoteRecord(t.IsAccepted())); a hash already
\* present is left alone
addTarget(h, accepted) ==
    /\ ~hasTarget(h)
    /\ voteRecords' = [k \in DOMAIN voteRecords \cup {h} |->
                          IF k = h THEN NewVoteRecord(accepted) ELSE voteRecords[k]]
    /\ call' = [NoCall EXCEPT !.op = "add", !.after = NewVoteRecord(accepted)]

\* the registry after the call out of regsiterVote on the record of h
Registered(h, err, out, update) ==
    /\ voteRecords' =
          IF update \in {StatusFinalized, StatusInvalid}
          THEN [k \in DOMAIN voteRecords \ {h} |-> voteRecords[k]]
          ELSE [voteRecords EXCEPT ![h] = out.rec]
    /\ call' = VoteCall(voteRecords[h], err, out, update)

StatusUpdate(out) == IF out.ret THEN status(out.rec) ELSE NoUpdate

Updated(h, err, out) == Registered(h, err, out, StatusUpdate(out))

\* registerVote(h, err): feed the vote to the record; when the call returns
\* true hand back the new status, and drop the entry when that status is terminal
registerVote(h, err) ==
    /\ hasTarget(h)
    /\ Updated(h, err, regsiterVote(voteRecords[h], err))

Directed(err, out) ==
    /\ vr' = out.rec
    /\ call' = VoteCall(vr, err, out, NoUpdate)

\* a direct call of regsiterVote on the record vr
DirectVote(err) == Directed(err, regsiterVote(vr, err))

----------------------------------------------------------------------------
(* Poll ordering: sortBlockInvsByWork and the block lookup behind it *)

\* block targets offered for insertion, by hash, and the scores they carry
BlockHashes == {65, 66, 67}
Scores == {10, 30, 50}

\* length of the longest inventory list handed to the sort
MaxInvs == 3

Inv(targetType, targetHash) ==
    [targetType |-> targetType, targetHash |-> targetHash]

Block(hash, work, valid, isInActiveChain) ==
    [hash |-> hash, work |-> work, valid |-> valid,
     isInActiveChain |-> isInActiveChain]

staticTestBlockMap ==
    (65 :> Block(65, 99, TRUE, TRUE)) @@ (66 :> Block(66, 100, TRUE, FALSE))

\* b, ok := staticTestBlockMap[h]
blockFound(h) == h \in DOMAIN staticTestBlockMap

\* blockForHash(h) where the lookup succeeds; it panics where it does not
blockForHash(h) == staticTestBlockMap[h]

\* a[i], a[j] = a[j], a[i]
Swap(a, i, j) == [a EXCEPT ![i] = a[j], ![j] = a[i]]

\* a[i].work > a[j].work
Less(a, i, j) == a[i].work > a[j].work

\* sort.Sort on a short slice: for j := i; j > 0 && Less(j, j-1); j-- { Swap }
RECURSIVE sinkLoop(_, _)
sinkLoop(a, j) ==
    IF j > 1 /\ Less(a, j, j - 1) THEN sinkLoop(Swap(a, j, j - 1), j - 1) ELSE a

RECURSIVE insertionLoop(_, _)
insertionLoop(a, i) ==
    IF i <= Len(a) THEN insertionLoop(sinkLoop(a, i), i + 1) ELSE a

sortSort(a) == insertionLoop(a, 2)

\* the first loop of sortBlockInvsByWork runs to its end
allBlocksFound(list) == \A i \in 1..Len(list) : blockFound(list[i].targetHash)

\* blocks[i] = blockForHash(inv.targetHash)
blocksOf(list) == [i \in 1..Len(list) |-> blockForHash(list[i].targetHash)]

\* invs[i] = Inv{"block", b.Hash()}
invsOf(blocks) == [i \in 1..Len(blocks) |-> Inv("block", blocks[i].hash)]

\* sortBlockInvsByWork(invs), where no lookup panics: the slice as it leaves it
sortBlockInvsByWork(list) == invsOf(sortSort(blocksOf(list)))

\* the inventory lists of block elements over the hashes in hs
InvLists(hs) ==
    UNION {[1..n -> {Inv("block", h) : h \in hs}] : n \in 0..MaxInvs}

NoTargets == [h \in {} |-> 0]

NothingPolled ==
    /\ targets = NoTargets
    /\ polled = <<>>
    /\ invs = <<>>
    /\ panicked = "none"

\* a block Target with the given Score is inserted under its hash
InsertBlock(h, score) ==
    /\ script = "poll"
    /\ panicked = "none"
    /\ h \notin DOMAIN targets
    /\ targets' = [k \in DOMAIN targets \cup {h} |->
                      IF k = h THEN score ELSE targets[k]]
    /\ UNCHANGED <<voteVars, script, polled, invs, panicked, nodeVars>>

\* the poll ordering of an inventory list over the inserted targets
SortBlockInvs(list) ==
    /\ script = "poll"
    /\ panicked = "none"
    /\ polled' = list
    /\ IF allBlocksFound(list)
       THEN /\ invs' = sortBlockInvsByWork(list)
            /\ panicked' = panicked
       ELSE /\ invs' = list
            /\ panicked' = "blockForHash"
    /\ UNCHANGED <<voteVars, script, targets, nodeVars>>

----------------------------------------------------------------------------
(* A node of the example program: its poll loop, its intake loop, its poll *)
(* server with one inbound handler, main stopping it, and the goroutine    *)
(* that refreshes the shared endpoint list                                 *)

Goroutines == {"main", "poll", "intake", "server", "handler", "refresher"}

\* the endpoints the list may name: the node's own host and another one
Endpoints == {"self", "peer"}

\* length of the longest endpoint list
MaxEndpoints == 2

\* transactions the node's channel holds before the sender blocks
MaxIncoming == 1

EndpointLists == UNION {[1..n -> Endpoints] : n \in 0..MaxEndpoints}

\* a sync.RWMutex: the goroutine holding it exclusively and those sharing it
Unlocked == [w |-> "none", r |-> {}]

\* a Lock that does not wait for the holder
CanLockAlways(mu) == TRUE

\* mu.Lock() returns once nobody holds mu
CanLock(mu) == mu.w = "none" /\ mu.r = {}

Lock(mu, g) == [mu EXCEPT !.w = g]

Unlock(mu) == [mu EXCEPT !.w = "none"]

\* mu.RLock() returns once nobody holds mu exclusively
CanRLock(mu) == mu.w = "none"

RLock(mu, g) == [mu EXCEPT !.r = @ \cup {g}]

RUnlock(mu, g) == [mu EXCEPT !.r = @ \ {g}]

\* the process runs the node and no panic has aborted it
Running == script = "node" /\ panicked = "none"

At(g, label) == pc[g] = label

Goto(g, label) == pc' = [pc EXCEPT ![g] = label]

\* the return of one of the goroutines start() counts: its deferred Done runs
Return(g) ==
    /\ Goto(g, "returned")
    /\ doneWg' = doneWg - 1

NodeCreated ==
    /\ pc = [g \in Goroutines |->
                CASE g = "main" -> "created"
                  [] g = "handler" -> "idle"
                  [] g = "refresher" -> "tick"
                  [] OTHER -> "off"]
    /\ snowballMu = Unlocked
    /\ snowball = {}
    /\ localInvs = {}
    /\ incoming = 0
    /\ quitCh = FALSE
    /\ doneWg = 0
    /\ networkEndpointsMu = Unlocked
    /\ networkEndpoints = <<>>
    /\ endpoints = <<>>

\* what no step of the node touches
elsewhere == <<voteVars, script, pollVars>>

\* n.doneWg.Add(3); n.startProcessor(); n.startIntake()
Start ==
    /\ Running
    /\ At("main", "created")
    /\ doneWg' = doneWg + 3
    /\ pc' = [pc EXCEPT !["main"] = "startPollServer",
                        !["poll"] = "select", !["intake"] = "select"]
    /\ UNCHANGED <<snowballMu, snowball, localInvs, incoming, quitCh,
                   networkEndpointsMu, networkEndpoints, endpoints,
                   panicked, elsewhere>>

\* n.startPollServer() returns nil: the server goroutine runs
StartPollServer ==
    /\ Running
    /\ At("main", "startPollServer")
    /\ pc' = [pc EXCEPT !["main"] = "running", !["server"] = "waitQuit"]
    /\ UNCHANGED <<snowballMu, snowball, localInvs, incoming, quitCh, doneWg,
                   networkEndpointsMu, networkEndpoints, endpoints,
                   panicked, elsewhere>>

\* n.startPollServer() returns an error: n.doneWg.Done(); panic(err)
StartPollServerFails ==
    /\ Running
    /\ At("main", "startPollServer")
    /\ doneWg' = doneWg - 1
    /\ panicked' = "startPollServer"
    /\ UNCHANGED <<pc, snowballMu, snowball, localInvs, incoming, quitCh,
                   networkEndpointsMu, networkEndpoints, endpoints, elsewhere>>

\* stop(): close(n.quitCh)
Stop ==
    /\ Running
    /\ At("main", "running")
    /\ quitCh' = TRUE
    /\ Goto("main", "wait")
    /\ UNCHANGED <<snowballMu, snowball, localInvs, incoming, doneWg,
                   networkEndpointsMu, networkEndpoints, endpoints,
                   panicked, elsewhere>>

\* stop(): n.doneWg.Wait() returns
StopReturns ==
    /\ Running
    /\ At("main", "wait")
    /\ doneWg = 0
    /\ Goto("main", "stopped")
    /\ UNCHANGED <<snowballMu, snowball, localInvs, incoming, quitCh, doneWg,
                   networkEndpointsMu, networkEndpoints, endpoints,
                   panicked, elsewhere>>

\* poll loop: case <-n.quitCh: return
PollQuit ==
    /\ Running
    /\ At("poll", "select")
    /\ quitCh
    /\ Return("poll")
    /\ UNCHANGED <<snowballMu, snowball, localInvs, incoming, quitCh,
                   networkEndpointsMu, networkEndpoints, endpoints,
                   panicked, elsewhere>>

\* poll loop: case <-ticker.C:
PollTick ==
    /\ Running
    /\ At("poll", "select")
    /\ Goto("poll", "rlock")
    /\ UNCHANGED <<snowballMu, snowball, localInvs, incoming, quitCh, doneWg,
                   networkEndpointsMu, networkEndpoints, endpoints,
                   panicked, elsewhere>>

\* poll loop: networkEndpointsMu.RLock()
PollRLock ==
    /\ Running
    /\ At("poll", "rlock")
    /\ CanRLock(networkEndpointsMu)
    /\ networkEndpointsMu' = RLock(networkEndpointsMu, "poll")
    /\ Goto("poll", "len")
    /\ UNCHANGED <<snowballMu, snowball, localInvs, incoming, quitCh, doneWg,
                   networkEndpoints, endpoints, panicked, elsewhere>>

\* poll loop: if len(networkEndpoints) == 0 { RUnlock(); continue }
PollLen ==
    /\ Running
    /\ At("poll", "len")
    /\ IF Len(networkEndpoints) = 0
       THEN /\ networkEndpointsMu' = RUnlock(networkEndpointsMu, "poll")
            /\ Goto("poll", "select")
       ELSE /\ networkEndpointsMu' = networkEndpointsMu
            /\ Goto("poll", "index")
    /\ UNCHANGED <<snowballMu, snowball, localInvs, incoming, quitCh, doneWg,
                   networkEndpoints, endpoints, panicked, elsewhere>>

\* poll loop: endpoint := networkEndpoints[i%len(networkEndpoints)]; RUnlock();
\* if endpoint == n.host { continue }.  i is any number; on a list that has
\* become empty since the test of its length the remainder divides by zero.
PollIndex ==
    /\ Running
    /\ At("poll", "index")
    /\ IF Len(networkEndpoints) = 0
       THEN /\ panicked' = "divide"
            /\ UNCHANGED <<pc, networkEndpointsMu>>
       ELSE /\ \E i \in 1..Len(networkEndpoints) :
                  Goto("poll", IF networkEndpoints[i] = "self"
                               THEN "select" ELSE "lock1")
            /\ networkEndpointsMu' = RUnlock(networkEndpointsMu, "poll")
            /\ panicked' = panicked
    /\ UNCHANGED <<snowballMu, snowball, localInvs, incoming, quitCh, doneWg,
                   networkEndpoints, endpoints, elsewhere>>

\* poll loop: n.snowballMu.Lock() before GetInvsForNextPoll
PollLock1 ==
    /\ Running
    /\ At("poll", "lock1")
    /\ CanLock(snowballMu)
    /\ snowballMu' = Lock(snowballMu, "poll")
    /\ Goto("poll", "GetInvsForNextPoll")
    /\ UNCHANGED <<snowball, localInvs, incoming, quitCh, doneWg,
                   networkEndpointsMu, networkEndpoints, endpoints,
                   panicked, elsewhere>>

\* poll loop: invs := n.snowball.GetInvsForNextPoll()
PollGetInvs ==
    /\ Running
    /\ At("poll", "GetInvsForNextPoll")
    /\ localInvs' = snowball
    /\ Goto("poll", "unlock1")
    /\ UNCHANGED <<snowballMu, snowball, incoming, quitCh, doneWg,
                   networkEndpointsMu, networkEndpoints, endpoints,
                   panicked, elsewhere>>

\* poll loop: n.snowballMu.Unlock(); if len(invs) == 0 { continue }
PollUnlock1 ==
    /\ Running
    /\ At("poll", "unlock1")
    /\ snowballMu' = Unlock(snowballMu)
    /\ Goto("poll", IF localInvs = {} THEN "select" ELSE "sendQuery")
    /\ UNCHANGED <<snowball, localInvs, incoming, quitCh, doneWg,
                   networkEndpointsMu, networkEndpoints, endpoints,
                   panicked, elsewhere>>

\* poll loop: n.sendQuery returns a response
PollQueryReturns ==
    /\ Running
    /\ At("poll", "sendQuery")
    /\ Goto("poll", "lock2")
    /\ UNCHANGED <<snowballMu, snowball, localInvs, incoming, quitCh, doneWg,
                   networkEndpointsMu, networkEndpoints, endpoints,
                   panicked, elsewhere>>

\* poll loop: n.sendQuery returns an error: panic(err)
PollQueryFails ==
    /\ Running
    /\ At("poll", "sendQuery")
    /\ panicked' = "sendQuery"
    /\ UNCHANGED <<pc, snowballMu, snowball, localInvs, incoming, quitCh, doneWg,
                   networkEndpointsMu, networkEndpoints, endpoints, elsewhere>>

\* poll loop: n.snowballMu.Lock() before RegisterVotes
PollLock2 ==
    /\ Running
    /\ At("poll", "lock2")
    /\ CanLock(snowballMu)
    /\ snowballMu' = Lock(snowballMu, "poll")
    /\ Goto("poll", "RegisterVotes")
    /\ UNCHANGED <<snowball, localInvs, incoming, quitCh, doneWg,
                   networkEndpointsMu, networkEndpoints, endpoints,
                   panicked, elsewhere>>

\* poll loop: n.snowball.RegisterVotes(n.id, *resp, &updates); the votes
\* bring some of the targets polled to a terminal status and these are dropped
PollRegisterVotes ==
    /\ Running
    /\ At("poll", "RegisterVotes")
    /\ \E terminal \in SUBSET localInvs : snowball' = snowball \ terminal
    /\ Goto("poll", "unlock2")
    /\ UNCHANGED <<snowballMu, localInvs, incoming, quitCh, doneWg,
                   networkEndpointsMu, networkEndpoints, endpoints,
                   panicked, elsewhere>>

\* poll loop: n.snowballMu.Unlock(); the updates are logged and the iteration
\* ends, and with it the life of its local invs
PollUnlock2 ==
    /\ Running
    /\ At("poll", "unlock2")
    /\ snowballMu' = Unlock(snowballMu)
    /\ localInvs' = {}
    /\ Goto("poll", "select")
    /\ UNCHANGED <<snowball, incoming, quitCh, doneWg,
                   networkEndpointsMu, networkEndpoints, endpoints,
                   panicked, elsewhere>>

\* sniffTransactions: n.incoming <- &tx{...}, while the channel has room
Sniff ==
    /\ Running
    /\ incoming < MaxIncoming
    /\ incoming' = incoming + 1
    /\ UNCHANGED <<pc, snowballMu, snowball, localInvs, quitCh, doneWg,
                   networkEndpointsMu, networkEndpoints, endpoints,
                   panicked, elsewhere>>

\* intake loop: case <-n.quitCh: return
IntakeQuit ==
    /\ Running
    /\ At("intake", "select")
    /\ quitCh
    /\ Return("intake")
    /\ UNCHANGED <<snowballMu, snowball, localInvs, incoming, quitCh,
                   networkEndpointsMu, networkEndpoints, endpoints,
                   panicked, elsewhere>>

\* intake loop: case t := <-n.incoming:
IntakeReceive ==
    /\ Running
    /\ At("intake", "select")
    /\ incoming > 0
    /\ incoming' = incoming - 1
    /\ Goto("intake", "lock")
    /\ UNCHANGED <<snowballMu, snowball, localInvs, quitCh, doneWg,
                   networkEndpointsMu, networkEndpoints, endpoints,
                   panicked, elsewhere>>

\* intake loop: n.snowballMu.Lock()
IntakeLock ==
    /\ Running
    /\ At("intake", "lock")
    /\ CanLock(snowballMu)
    /\ snowballMu' = Lock(snowballMu, "intake")
    /\ Goto("intake", "AddTargetToReconcile")
    /\ UNCHANGED <<snowball, localInvs, incoming, quitCh, doneWg,
                   networkEndpointsMu, networkEndpoints, endpoints,
                   panicked, elsewhere>>

\* intake loop: n.snowball.AddTargetToReconcile(t)
IntakeAddTarget ==
    /\ Running
    /\ At("intake", "AddTargetToReconcile")
    /\ \E h \in Hashes : snowball' = snowball \cup {h}
    /\ Goto("intake", "unlock")
    /\ UNCHANGED <<snowballMu, localInvs, incoming, quitCh, doneWg,
                   networkEndpointsMu, networkEndpoints, endpoints,
                   panicked, elsewhere>>

\* intake loop: n.snowballMu.Unlock()
IntakeUnlock ==
    /\ Running
    /\ At("intake", "unlock")
    /\ snowballMu' = Unlock(snowballMu)
    /\ Goto("intake", "select")
    /\ UNCHANGED <<snowball, localInvs, incoming, quitCh, doneWg,
                   networkEndpointsMu, networkEndpoints, endpoints,
                   panicked, elsewhere>>

\* poll server: <-n.quitCh
ServerQuit ==
    /\ Running
    /\ At("server", "waitQuit")
    /\ quitCh
    /\ Goto("server", "Shutdown")
    /\ UNCHANGED <<snowballMu, snowball, localInvs, incoming, quitCh, doneWg,
                   networkEndpointsMu, networkEndpoints, endpoints,
                   panicked, elsewhere>>

\* poll server: srv.Shutdown(nil) returns and so does the goroutine
ServerShutdown ==
    /\ Running
    /\ At("server", "Shutdown")
    /\ Return("server")
    /\ UNCHANGED <<snowballMu, snowball, localInvs, incoming, quitCh,
                   networkEndpointsMu, networkEndpoints, endpoints,
                   panicked, elsewhere>>

\* the server hands a poll of a peer to respondToPoll
HandlerRequest ==
    /\ Running
    /\ At("handler", "idle")
    /\ pc["server"] \in {"waitQuit", "Shutdown"}
    /\ Goto("handler", "lock")
    /\ UNCHANGED <<snowballMu, snowball, localInvs, incoming, quitCh, doneWg,
                   networkEndpointsMu, networkEndpoints, endpoints,
                   panicked, elsewhere>>

\* respondToPoll: n.snowballMu.Lock(); defer n.snowballMu.Unlock()
HandlerLock ==
    /\ Running
    /\ At("handler", "lock")
    /\ CanLock(snowballMu)
    /\ snowballMu' = Lock(snowballMu, "handler")
    /\ Goto("handler", "AddTargetToReconcile")
    /\ UNCHANGED <<snowball, localInvs, incoming, quitCh, doneWg,
                   networkEndpointsMu, networkEndpoints, endpoints,
                   panicked, elsewhere>>

\* respondToPoll: the loop of n.snowball.AddTargetToReconcile over the invs
HandlerAddTargets ==
    /\ Running
    /\ At("handler", "AddTargetToReconcile")
    /\ \E hs \in SUBSET Hashes : snowball' = snowball \cup hs
    /\ Goto("handler", "respond")
    /\ UNCHANGED <<snowballMu, localInvs, incoming, quitCh, doneWg,
                   networkEndpointsMu, networkEndpoints, endpoints,
                   panicked, elsewhere>>

\* respondToPoll returns: the deferred Unlock runs
HandlerReturn ==
    /\ Running
    /\ At("handler", "respond")
    /\ snowballMu' = Unlock(snowballMu)
    /\ Goto("handler", "idle")
    /\ UNCHANGED <<snowball, localInvs, incoming, quitCh, doneWg,
                   networkEndpointsMu, networkEndpoints, endpoints,
                   panicked, elsewhere>>

\* loadNewEndpoints: networkEndpointsMu.Lock()
RefresherLock ==
    /\ Running
    /\ At("refresher", "tick")
    /\ CanLock(networkEndpointsMu)
    /\ networkEndpointsMu' = Lock(networkEndpointsMu, "refresher")
    /\ Goto("refresher", "getEndpoints")
    /\ UNCHANGED <<snowballMu, snowball, localInvs, incoming, quitCh, doneWg,
                   networkEndpoints, endpoints, panicked, elsewhere>>

\* loadNewEndpoints: endpoints, err := getEndpoints(rConn) with err == nil;
\* networkEndpointsMu.Unlock()
RefresherGet(list) ==
    /\ Running
    /\ At("refresher", "getEndpoints")
    /\ endpoints' = list
    /\ networkEndpointsMu' = Unlock(networkEndpointsMu)
    /\ Goto("refresher", "assign")
    /\ UNCHANGED <<snowballMu, snowball, localInvs, incoming, quitCh, doneWg,
                   networkEndpoints, panicked, elsewhere>>

\* loadNewEndpoints: getEndpoints fails; networkEndpointsMu.Unlock(); return err
RefresherGetFails ==
    /\ Running
    /\ At("refresher", "getEndpoints")
    /\ networkEndpointsMu' = Unlock(networkEndpointsMu)
    /\ Goto("refresher", "tick")
    /\ UNCHANGED <<snowballMu, snowball, localInvs, incoming, quitCh, doneWg,
                   networkEndpoints, endpoints, panicked, elsewhere>>

\* loadNewEndpoints: networkEndpoints = endpoints; return nil, which ends the
\* life of the local endpoints
RefresherAssign ==
    /\ Running
    /\ At("refresher", "assign")
    /\ networkEndpoints' = endpoints
    /\ endpoints' = <<>>
    /\ Goto("refresher", "tick")
    /\ UNCHANGED <<snowballMu, snowball, localInvs, incoming, quitCh, doneWg,
                   networkEndpointsMu, panicked, elsewhere>>

----------------------------------------------------------------------------
(* The registry under any sequence of addTarget and registerVote *)

AddTarget(h, accepted) ==
    /\ script = "registry"
    /\ addTarget(h, accepted)
    /\ UNCHANGED <<vr, script, step, pollVars, panicked, nodeVars>>

RegisterVote(h, err) ==
    /\ script = "registry"
    /\ registerVote(h, err)
    /\ UNCHANGED <<vr, script, step, pollVars, panicked, nodeVars>>

Init ==
    /\ voteRecords = NoRecords
    /\ NothingPolled
    /\ NodeCreated
    /\ vr = NewVoteRecord(TRUE)
    /\ script = "registry"
    /\ step = 0
    /\ call = NoCall

Next ==
    \/ \E h \in Hashes, accepted \in BOOLEAN : AddTarget(h, accepted)
    \/ \E h \in Hashes, err \in RegistryErrCodes : RegisterVote(h, err)

Spec == Init /\ [][Next]_vars

----------------------------------------------------------------------------
(* Scripted drivers.  Each feeds one fixed pattern of votes to a freshly    *)
(* constructed record:                                                     *)
(*   budget  any error codes, at most MaxCalls of them                     *)
(*   S1      registerVote(0) through the registry, target 42 accepted      *)
(*   S2      regsiterVote(1) on an accepted record                         *)
(*   S3      regsiterVote(0) and regsiterVote(-1) in alternation           *)
(*   run     votes that agree with the record's polarity, without end      *)
(*   final   agreeing votes until the record has finalized, then any       *)
(*           error codes, at most MaxCalls of them                         *)

Scripts == {"budget", "S1", "S2", "S3", "run", "final"}

ErrYes == U32(0, 0)
ErrNo == U32(0, 1)
ErrUndecided == U32(65535, 65535)

\* the error codes that agree with the polarity of r: 0 when r is accepted,
\* 1..0x7FFFFFFF when it is not
AgreeingErrCodes(r) ==
    IF isAccepted(r) THEN {ErrYes} ELSE {ErrNo, U32(32767, 65535)}

\* the call counter of the drivers without a budget stops at MaxScriptCalls
Counted(n) == IF n < MaxScriptCalls THEN n + 1 ELSE n

BudgetVote ==
    /\ script = "budget"
    /\ step < MaxCalls
    /\ \E err \in ErrCodes : DirectVote(err)
    /\ step' = step + 1
    /\ UNCHANGED <<voteRecords, script, pollVars, panicked, nodeVars>>

S1Insert ==
    /\ script = "S1"
    /\ call.op = "none"
    /\ addTarget(42, TRUE)
    /\ UNCHANGED <<vr, script, step, pollVars, panicked, nodeVars>>

S1Vote ==
    /\ script = "S1"
    /\ registerVote(42, ErrYes)
    /\ step' = step + 1
    /\ UNCHANGED <<vr, script, pollVars, panicked, nodeVars>>

S2Vote ==
    /\ script = "S2"
    /\ step < MaxScriptCalls
    /\ DirectVote(ErrNo)
    /\ step' = step + 1
    /\ UNCHANGED <<voteRecords, script, pollVars, panicked, nodeVars>>

S3Vote ==
    /\ script = "S3"
    /\ step < MaxScriptCalls
    /\ \E err \in {ErrYes, ErrUndecided} :
          /\ call.op = "vote" => err # call.err
          /\ DirectVote(err)
    /\ step' = step + 1
    /\ UNCHANGED <<voteRecords, script, pollVars, panicked, nodeVars>>

RunVote ==
    /\ script = "run"
    /\ \E err \in AgreeingErrCodes(vr) : DirectVote(err)
    /\ step' = Counted(step)
    /\ UNCHANGED <<voteRecords, script, pollVars, panicked, nodeVars>>

\* step counts the votes fed after the record finalized
FinalVote ==
    /\ script = "final"
    /\ IF hasFinalized(vr) \/ step > 0
       THEN /\ step < MaxCalls
            /\ \E err \in ErrCodes : DirectVote(err)
            /\ step' = step + 1
       ELSE /\ \E err \in AgreeingErrCodes(vr) : DirectVote(err)
            /\ step' = step
    /\ UNCHANGED <<voteRecords, script, pollVars, panicked, nodeVars>>

InitScripts ==
    /\ voteRecords = NoRecords
    /\ NothingPolled
    /\ NodeCreated
    /\ script \in Scripts
    /\ \E accepted \in BOOLEAN :
          /\ script \in {"S1", "S2", "S3"} => accepted
          /\ vr = NewVoteRecord(accepted)
    /\ step = 0
    /\ call = NoCall

NextScripts ==
    \/ BudgetVote
    \/ S1Insert
    \/ S1Vote
    \/ S2Vote
    \/ S3Vote
    \/ RunVote
    \/ FinalVote

SpecScripts == InitScripts /\ [][NextScripts]_vars

----------------------------------------------------------------------------
(* regsiterVote as a function: one call on a record drawn from every pair  *)
(* of 8-bit windows and from the confidences around 0, around the          *)
(* finalization score and around the top of the 16-bit range               *)

ConfInputs ==
    {0, 1, 2 * AvalancheFinalizationScore - 2, 2 * AvalancheFinalizationScore - 1,
     65534, 65535}

FnApply ==
    /\ script = "fn"
    /\ step = 0
    /\ \E err \in ErrCodes : DirectVote(err)
    /\ step' = 1
    /\ UNCHANGED <<voteRecords, script, pollVars, panicked, nodeVars>>

InitFn ==
    /\ voteRecords = NoRecords
    /\ NothingPolled
    /\ NodeCreated
    /\ script = "fn"
    /\ vr \in [votes : 0..255, consider : 0..255, confidence : ConfInputs]
    /\ step = 0
    /\ call = NoCall

NextFn == FnApply

SpecFn == InitFn /\ [][NextFn]_vars

----------------------------------------------------------------------------
(* Poll ordering under any insertion of block targets and any inventory    *)
(* list over the targets inserted                                          *)

InitPoll ==
    /\ voteRecords = NoRecords
    /\ NothingPolled
    /\ NodeCreated
    /\ vr = NewVoteRecord(TRUE)
    /\ script = "poll"
    /\ step = 0
    /\ call = NoCall

NextPoll ==
    \/ \E h \in BlockHashes, score \in Scores : InsertBlock(h, score)
    \/ \E list \in InvLists(DOMAIN targets) : SortBlockInvs(list)

SpecPoll == InitPoll /\ [][NextPoll]_vars

----------------------------------------------------------------------------
(* The node under every interleaving of its goroutines.  The endpoint list *)
(* starts as main's first loadNewEndpoints left it.                        *)

InitNode ==
    /\ voteRecords = NoRecords
    /\ NothingPolled
    /\ pc = [g \in Goroutines |->
                CASE g = "main" -> "created"
                  [] g = "handler" -> "idle"
                  [] g = "refresher" -> "tick"
                  [] OTHER -> "off"]
    /\ snowballMu = Unlocked
    /\ snowball = {}
    /\ localInvs = {}
    /\ incoming = 0
    /\ quitCh = FALSE
    /\ doneWg = 0
    /\ networkEndpointsMu = Unlocked
    /\ networkEndpoints \in EndpointLists
    /\ endpoints = <<>>
    /\ vr = NewVoteRecord(TRUE)
    /\ script = "node"
    /\ step = 0
    /\ call = NoCall

MainStep ==
    \/ Start
    \/ StartPollServer
    \/ StartPollServerFails
    \/ Stop
    \/ StopReturns

PollStep ==
    \/ PollQuit
    \/ PollTick
    \/ PollRLock
    \/ PollLen
    \/ PollIndex
    \/ PollLock1
    \/ PollGetInvs
    \/ PollUnlock1
    \/ PollQueryReturns
    \/ PollQueryFails
    \/ PollLock2
    \/ PollRegisterVotes
    \/ PollUnlock2

IntakeStep ==
    \/ IntakeQuit
    \/ IntakeReceive
    \/ IntakeLock
    \/ IntakeAddTarget
    \/ IntakeUnlock

ServerStep ==
    \/ ServerQuit
    \/ ServerShutdown

HandlerStep ==
    \/ HandlerRequest
    \/ HandlerLock
    \/ HandlerAddTargets
    \/ HandlerReturn

RefresherStep ==
    \/ RefresherLock
    \/ \E list \in EndpointLists : RefresherGet(list)
    \/ RefresherGetFails
    \/ RefresherAssign

NextNode ==
    \/ MainStep
    \/ PollStep
    \/ IntakeStep
    \/ ServerStep
    \/ HandlerStep
    \/ RefresherStep
    \/ Sniff

SpecNode == InitNode /\ [][NextNode]_vars

\* Scheduling: a goroutine that can take a step takes it; a select with its
\* quit case ready takes that case in the end, since select picks among the
\* ready cases at random; a goroutine waiting for a lock gets it in the end;
\* a query in flight returns.  Timers, arriving transactions and polls, and
\* main's decision to stop are under no obligation.
PollProgress ==
    \/ PollLen
    \/ PollIndex
    \/ PollGetInvs
    \/ PollUnlock1
    \/ PollQueryReturns
    \/ PollQueryFails
    \/ PollRegisterVotes
    \/ PollUnlock2

IntakeProgress == IntakeAddTarget \/ IntakeUnlock

HandlerProgress == HandlerAddTargets \/ HandlerReturn

RefresherProgress ==
    \/ \E list \in EndpointLists : RefresherGet(list)
    \/ RefresherGetFails
    \/ RefresherAssign

Fairness ==
    /\ WF_vars(Start \/ StartPollServer \/ StartPollServerFails \/ StopReturns)
    /\ WF_vars(PollProgress)
    /\ SF_vars(PollQuit)
    /\ SF_vars(PollRLock)
    /\ SF_vars(PollLock1 \/ PollLock2)
    /\ WF_vars(IntakeProgress)
    /\ SF_vars(IntakeQuit)
    /\ SF_vars(IntakeLock)
    /\ WF_vars(ServerStep)
    /\ WF_vars(HandlerProgress)
    /\ SF_vars(HandlerLock)
    /\ WF_vars(RefresherProgress)

SpecNodeFair == InitNode /\ [][NextNode]_vars /\ Fairness

----------------------------------------------------------------------------
(* The round verdict as the 7-of-8 rule states it, computed on the bits of *)
(* the two windows without the code's helpers                              *)

\* entry v * 256 + c + 1: the positions set in both v and c
AgreeCountTable ==
    [i \in 1..65536 |->
        LET v == (i - 1) \div 256
            c == (i - 1) % 256
            b(k) == Bit(v, k) * Bit(c, k)
        IN  b(0) + b(1) + b(2) + b(3) + b(4) + b(5) + b(6) + b(7)] \o <<>>

\* entry v * 256 + c + 1: the positions set in c and clear in v
DisagreeCountTable ==
    [i \in 1..65536 |->
        LET v == (i - 1) \div 256
            c == (i - 1) % 256
            b(k) == (1 - Bit(v, k)) * Bit(c, k)
        IN  b(0) + b(1) + b(2) + b(3) + b(4) + b(5) + b(6) + b(7)] \o <<>>

AgreeCount(v, c) == AgreeCountTable[v * 256 + c + 1]

DisagreeCount(v, c) == DisagreeCountTable[v * 256 + c + 1]

Verdict(v, c) ==
    IF AgreeCount(v, c) > 6 THEN "yes"
    ELSE IF DisagreeCount(v, c) > 6 THEN "no"
    ELSE "none"

\* the verdict of the last call's round, read off the windows it left
CallVerdict == Verdict(call.after.votes, call.after.consider)

Polarity(confidence) == confidence % 2 = 1

Streak(confidence) == confidence \div 2

Voted == call.op = "vote"

----------------------------------------------------------------------------
(* C1 *)

\* C1 as stated: a call of registerVote that returns false leaves confidence
\* identical to its value before the call.
C1_FalseKeepsConfidence ==
    (Voted /\ ~call.ret) => call.after.confidence = call.before

\* C1, amended: a call whose round is inconclusive returns false and leaves
\* confidence identical to its value before the call; a call that returns
\* false and changes confidence had a conclusive round agreeing with the
\* polarity, which it keeps.
C1_InconclusiveKeepsConfidence ==
    Voted =>
        /\ CallVerdict = "none" =>
              ~call.ret /\ call.after.confidence = call.before
        /\ (~call.ret /\ call.after.confidence # call.before) =>
              /\ CallVerdict = (IF Polarity(call.before) THEN "yes" ELSE "no")
              /\ Polarity(call.after.confidence) = Polarity(call.before)

\* an inconclusive round on a record that holds a streak
C1_Witness ==
    /\ Voted
    /\ CallVerdict = "none"
    /\ ~call.ret
    /\ Streak(call.before) > 0
    /\ call.after.confidence = call.before

----------------------------------------------------------------------------
(* C2 *)

\* C2: a call whose round verdict is conclusive and differs from the polarity
\* sets confidence to exactly 1 (yes) or 0 (no), so the streak is 0 and the
\* low bit is the new polarity, and the call returns true.
C2_FlipResetsStreak ==
    (Voted /\ CallVerdict # "none"
           /\ (CallVerdict = "yes") # Polarity(call.before)) =>
        /\ call.after.confidence = (IF CallVerdict = "yes" THEN 1 ELSE 0)
        /\ Streak(call.after.confidence) = 0
        /\ Polarity(call.after.confidence) = (CallVerdict = "yes")
        /\ call.ret

\* an accepted record with a streak flipped by a conclusive no
C2_Witness ==
    /\ Voted
    /\ CallVerdict = "no"
    /\ Polarity(call.before)
    /\ Streak(call.before) > 0
    /\ call.after.confidence = 0
    /\ call.ret

----------------------------------------------------------------------------
(* C3 *)

\* C3 as stated: along a run of votes that all agree with the polarity the
\* polarity never changes, the streak never decreases and grows by at most 1
\* per call, and the call returns true exactly when the streak reaches 128,
\* from where hasFinalized() stays true.
C3_AgreementIsMonotone ==
    (script = "run" /\ Voted) =>
        /\ Polarity(call.after.confidence) = Polarity(call.before)
        /\ Streak(call.after.confidence) >= Streak(call.before)
        /\ Streak(call.after.confidence) <= Streak(call.before) + 1
        /\ call.ret = (Streak(call.before) = AvalancheFinalizationScore - 1
                       /\ Streak(call.after.confidence) = AvalancheFinalizationScore)
        /\ hasFinalized(call.after) =
              (Streak(call.after.confidence) >= AvalancheFinalizationScore)

----------------------------------------------------------------------------
(* C4 *)

\* the five steps of registerVote, on the numbers
RefVotes(r, err) ==
    (r.votes * 2 + (IF err.hi = 0 /\ err.lo = 0 THEN 1 ELSE 0)) % 256

\* err as a signed 32-bit value is >= 0 iff err < 2^31
RefConsider(r, err) ==
    (r.consider * 2 + (IF err.hi < 32768 THEN 1 ELSE 0)) % 256

RefStep(r, err) ==
    LET v == RefVotes(r, err)
        c == RefConsider(r, err)
        verdict == Verdict(v, c)
        polarity == r.confidence % 2 = 1
        grown == (r.confidence + 2) % 65536
    IN  IF verdict = "none"
        THEN [rec |-> [votes |-> v, consider |-> c, confidence |-> r.confidence],
              ret |-> FALSE]
        ELSE IF (verdict = "yes") = polarity
        THEN [rec |-> [votes |-> v, consider |-> c, confidence |-> grown],
              ret |-> (grown \div 2 = 128)]
        ELSE [rec |-> [votes |-> v, consider |-> c,
                       confidence |-> IF verdict = "yes" THEN 1 ELSE 0],
              ret |-> TRUE]

\* C4: for every pair of 8-bit windows, the confidences drawn and every error
\* code, the record regsiterVote leaves and the value it returns are those of
\* the five-step reference.
C4_MatchesReference ==
    [][(script = "fn" /\ call'.op = "vote") =>
          /\ vr' = RefStep(vr, call'.err).rec
          /\ call'.ret = RefStep(vr, call'.err).ret]_vars

\* a call that reaches the finalization score on a seven-of-eight window
C4_Witness ==
    /\ script = "fn"
    /\ Voted
    /\ call.ret
    /\ AgreeCount(vr.votes, vr.consider) = 7
    /\ vr.confidence = 2 * AvalancheFinalizationScore + 1

----------------------------------------------------------------------------
(* C5 *)

\* C5 as stated: the 128th registerVote(0) on a fresh accepted target returns
\* true with status Finalized and the entry is removed.
C5_FinalizedAt128 ==
    (script = "S1" /\ Voted /\ step = 128) =>
        /\ call.ret
        /\ call.update = StatusFinalized
        /\ ~hasTarget(42)

\* C5, amended: the first six calls are inconclusive, so the streak reaches 128
\* on the 134th registerVote(0): that call returns true with status Finalized
\* and the entry is removed; every earlier call returns false, hands back no
\* update and leaves the entry in place with status Accepted.
C5_FinalizedAt134 ==
    (script = "S1" /\ Voted) =>
        /\ step <= 6 + AvalancheFinalizationScore
        /\ step < 6 + AvalancheFinalizationScore =>
              /\ ~call.ret
              /\ call.update = NoUpdate
              /\ hasTarget(42)
              /\ status(voteRecords[42]) = StatusAccepted
        /\ step = 6 + AvalancheFinalizationScore =>
              /\ call.ret
              /\ call.update = StatusFinalized
              /\ status(call.after) = StatusFinalized
              /\ ~hasTarget(42)

\* the 134th vote has finalized the target and emptied the registry
C5_Witness ==
    /\ script = "S1"
    /\ step = 6 + AvalancheFinalizationScore
    /\ call.update = StatusFinalized
    /\ DOMAIN voteRecords = {}

----------------------------------------------------------------------------
(* C6 *)

\* C6 as stated: of eight regsiterVote(1) on a fresh accepted record the first
\* seven return false and leave confidence 1, the 8th returns true and leaves
\* confidence 0 with status Rejected; 128 further calls bring status Invalid.
C6_FlipAtEighth ==
    (script = "S2" /\ Voted) =>
        /\ step <= 7 => (~call.ret /\ vr.confidence = 1)
        /\ step = 8 =>
              (call.ret /\ vr.confidence = 0 /\ status(vr) = StatusRejected)
        /\ step = 8 + AvalancheFinalizationScore => status(vr) = StatusInvalid

\* C6, amended: the first six calls return false and leave confidence 1, the
\* 7th returns true and leaves confidence 0 with status Rejected; the status
\* stays Rejected until the 128th further call, which returns true and brings
\* status Invalid.
C6_FlipAtSeventh ==
    (script = "S2" /\ Voted) =>
        /\ step <= 6 =>
              (~call.ret /\ vr.confidence = 1 /\ status(vr) = StatusAccepted)
        /\ step = 7 =>
              (call.ret /\ vr.confidence = 0 /\ status(vr) = StatusRejected)
        /\ (step > 7 /\ step < 7 + AvalancheFinalizationScore) =>
              (~call.ret /\ status(vr) = StatusRejected)
        /\ step = 7 + AvalancheFinalizationScore =>
              (call.ret /\ status(vr) = StatusInvalid)

\* the 135th vote has made the record Invalid
C6_Witness ==
    /\ script = "S2"
    /\ step = 7 + AvalancheFinalizationScore
    /\ call.ret
    /\ status(vr) = StatusInvalid

----------------------------------------------------------------------------
(* C7 *)

\* C7 as stated: none of the first seven calls on a fresh record has a
\* conclusive round, changes confidence or returns true.
C7_NoVerdictInFirstSeven ==
    (script = "budget" /\ Voted /\ step <= 7) =>
        /\ CallVerdict = "none"
        /\ ~call.ret
        /\ call.after.confidence = call.before

\* C7, amended: none of the first six calls on a fresh record (either initial
\* polarity, any error codes) has a conclusive round, changes confidence or
\* returns true; the seventh can.
C7_NoVerdictInFirstSix ==
    (script = "budget" /\ Voted /\ step <= 6) =>
        /\ CallVerdict = "none"
        /\ ~call.ret
        /\ call.after.confidence = call.before
        /\ vr.confidence \in {0, 1}

\* six conclusive votes of the same kind, still without a verdict
C7_Witness ==
    /\ script = "budget"
    /\ Voted
    /\ step = 6
    /\ vr.consider = 63
    /\ AgreeCount(vr.votes, vr.consider) = 6
    /\ ~call.ret

----------------------------------------------------------------------------
(* C8 *)

\* C8: under alternating votes of 0 and -1 on a fresh accepted record at most
\* 4 positions are set in both windows, every call returns false, confidence
\* stays 1 and the status stays Accepted.
C8_UndecidedPeerNeverDecides ==
    script = "S3" =>
        /\ AgreeCount(vr.votes, vr.consider) <= 4
        /\ Voted => ~call.ret
        /\ vr.confidence = 1
        /\ status(vr) = StatusAccepted

\* the window once it holds eight alternating votes: four of them agree
C8_Witness ==
    /\ script = "S3"
    /\ step >= 8
    /\ AgreeCount(vr.votes, vr.consider) = 4
    /\ call.err = ErrUndecided

----------------------------------------------------------------------------
(* C9 *)

\* C9 as stated: once the streak has reached 128 no call of registerVote, with
\* any error code, changes isAccepted().
C9_FinalizedPolarityIsTerminal ==
    (script = "final" /\ Voted /\ Streak(call.before) >= AvalancheFinalizationScore) =>
        isAccepted(call.after) = Polarity(call.before)

----------------------------------------------------------------------------
(* C10 *)

\* C10: every target present in the registry has a record that has not
\* finalized (streak below 128).
C10_OpenTargetsNotFinalized ==
    script = "registry" =>
        \A h \in DOMAIN voteRecords :
            /\ ~hasFinalized(voteRecords[h])
            /\ Streak(voteRecords[h].confidence) < 128

\* a vote has finalized the target and the registry has dropped it
C10_Witness ==
    /\ script = "registry"
    /\ Voted
    /\ call.ret
    /\ call.update \in {StatusFinalized, StatusInvalid}
    /\ hasFinalized(call.after)
    /\ ~hasTarget(42)

----------------------------------------------------------------------------
(* C11 *)

\* the table of status(), on the numbers: low bit of confidence is the
\* polarity, the record has finalized when confidence >> 1 is at least 128
StatusTable(confidence) ==
    LET accepted == confidence % 2 = 1
        finalized == confidence \div 2 >= 128
    IN  IF accepted /\ ~finalized THEN 2
        ELSE IF ~accepted /\ ~finalized THEN 1
        ELSE IF accepted /\ finalized THEN 3
        ELSE 0

\* C11: status() maps (isAccepted, hasFinalized) to Accepted = 2, Rejected = 1,
\* Finalized = 3, Invalid = 0 as the table says, on every confidence a record
\* takes (the agreeing run takes all 65536 of them) and on the status update
\* the registry hands back.
C11_StatusFollowsTable ==
    /\ status(vr) = StatusTable(vr.confidence)
    /\ status(call.after) = StatusTable(call.after.confidence)
    /\ \A h \in DOMAIN voteRecords :
          status(voteRecords[h]) = StatusTable(voteRecords[h].confidence)
    /\ call.update # NoUpdate => call.update = StatusTable(call.after.confidence)
    /\ <<StatusInvalid, StatusRejected, StatusAccepted, StatusFinalized>>
          = <<0, 1, 2, 3>>

\* a rejected record that has finalized: the row (false, true) -> Invalid
C11_Witness ==
    /\ Voted
    /\ ~isAccepted(vr)
    /\ hasFinalized(vr)
    /\ status(vr) = StatusInvalid

----------------------------------------------------------------------------
(* C16 *)

\* the status of the record the last call was made on
StatusBefore == status([call.after EXCEPT !.confidence = call.before])

\* C16: on a record whose streak is below 128 before the call (every record
\* the registry holds), regsiterVote returns true exactly when status() after
\* the call differs from status() before it.
C16_TrueIffStatusChanged ==
    (script = "registry" /\ Voted /\ Streak(call.before) < 128) =>
        (call.ret <=> status(call.after) # StatusBefore)

\* an accepted record with a streak turned Rejected by the call
C16_Witness ==
    /\ script = "registry"
    /\ Voted
    /\ Streak(call.before) > 0
    /\ Streak(call.before) < 128
    /\ StatusBefore = StatusAccepted
    /\ status(call.after) = StatusRejected
    /\ call.ret

----------------------------------------------------------------------------
(* C17 *)

\* the error code of the last call is negative as a signed 32-bit value
UndecidedCall == Voted /\ call.err.hi >= 32768

\* C17 as stated: a call with a negative error code leaves confidence
\* unchanged and returns false.
C17_UndecidedKeepsConfidence ==
    UndecidedCall => (call.after.confidence = call.before /\ ~call.ret)

\* C17, amended: a call with a negative error code adds a position that is
\* not considered, so at most the seven older positions count; when fewer than
\* seven of them agree and fewer than seven disagree the call leaves confidence
\* unchanged and returns false.  When all seven older positions are considered
\* and alike the round is conclusive and the call acts on confidence as any
\* conclusive round does.
C17_UndecidedIsNotCounted ==
    UndecidedCall =>
        /\ Bit(call.after.consider, 0) = 0
        /\ AgreeCount(call.after.votes, call.after.consider) <= 7
        /\ DisagreeCount(call.after.votes, call.after.consider) <= 7
        /\ (/\ AgreeCount(call.after.votes, call.after.consider) < 7
            /\ DisagreeCount(call.after.votes, call.after.consider) < 7) =>
              (call.after.confidence = call.before /\ ~call.ret)
        /\ call.after.confidence # call.before =>
              call.after.consider = 254 /\ call.after.votes \in {0, 254}

\* an undecided vote after seven considered votes that are not alike: nothing
\* but the windows moves
C17_Witness ==
    /\ UndecidedCall
    /\ call.after.consider = 254
    /\ AgreeCount(call.after.votes, call.after.consider) = 6
    /\ Streak(call.before) > 0
    /\ call.after.confidence = call.before
    /\ ~call.ret

----------------------------------------------------------------------------
(* C18 *)

\* the polarity of r is the verdict of its windows whenever they hold one
PolarityMatchesWindow(r) ==
    /\ AgreeCount(r.votes, r.consider) > 6 => isAccepted(r)
    /\ DisagreeCount(r.votes, r.consider) > 6 => ~isAccepted(r)

\* C18: in every state reached from a freshly constructed record by any
\* sequence of registerVote calls, more than 6 agreeing positions imply
\* isAccepted() and more than 6 disagreeing positions imply its negation.
C18_PolarityMatchesWindow ==
    /\ PolarityMatchesWindow(vr)
    /\ PolarityMatchesWindow(call.after)
    /\ \A h \in DOMAIN voteRecords : PolarityMatchesWindow(voteRecords[h])

\* a target inserted accepted that a conclusive no has turned and kept rejected
C18_Witness ==
    /\ script = "registry"
    /\ hasTarget(42)
    /\ DisagreeCount(voteRecords[42].votes, voteRecords[42].consider) > 6
    /\ ~isAccepted(voteRecords[42])
    /\ Streak(voteRecords[42].confidence) > 1

----------------------------------------------------------------------------
(* C19 *)

\* C19 as stated: along a run of conclusive votes that agree with the
\* polarity every conclusive round adds exactly 1 to the streak, and
\* hasFinalized(), once true, stays true.
C19_ConfidenceNeverWraps ==
    (script = "run" /\ Voted) =>
        /\ CallVerdict # "none" =>
              getConfidence(call.after) = Streak(call.before) + 1
        /\ Streak(call.before) >= AvalancheFinalizationScore =>
              hasFinalized(call.after)

----------------------------------------------------------------------------
(* C12 *)

\* the number of elements of the list that carry the hash h
CountOf(list, h) == Cardinality({i \in 1..Len(list) : list[i].targetHash = h})

\* C12 as stated: the poll ordering returns the hashes it was handed, each as
\* often as it was handed, in non-increasing order of the Score of the Target
\* inserted for each hash.
C12_OrderedByTargetScore ==
    (script = "poll" /\ panicked = "none") =>
        /\ Len(invs) = Len(polled)
        /\ \A h \in BlockHashes : CountOf(invs, h) = CountOf(polled, h)
        /\ \A i, j \in 1..Len(invs) :
              i < j => targets[invs[i].targetHash] >= targets[invs[j].targetHash]

----------------------------------------------------------------------------
(* C13 *)

\* C13 as stated: the poll-ordering path never panics, whatever hashes the
\* inventory list carries.
C13_CoreNeverAborts == script = "poll" => panicked = "none"

----------------------------------------------------------------------------
(* C14 *)

\* g is inside an operation of the node's Processor
InProcessor(g) ==
    pc[g] \in {"GetInvsForNextPoll", "RegisterVotes", "AddTargetToReconcile"}

\* g is between a Lock of snowballMu and its Unlock
InCriticalSection(g) ==
    \/ InProcessor(g)
    \/ g = "poll" /\ pc[g] \in {"unlock1", "unlock2"}
    \/ g = "intake" /\ pc[g] = "unlock"
    \/ g = "handler" /\ pc[g] = "respond"

\* C14: a goroutine inside GetInvsForNextPoll, RegisterVotes or
\* AddTargetToReconcile holds the node's snowballMu exclusively, so no two
\* goroutines are inside the Processor at once; the lock is held from before
\* the call until after it and by nobody else.
C14_ProcessorCallsSerialized ==
    script = "node" =>
        /\ \A g \in Goroutines :
              InProcessor(g) => (snowballMu.w = g /\ snowballMu.r = {})
        /\ Cardinality({g \in Goroutines : InProcessor(g)}) <= 1
        /\ \A g \in Goroutines : InCriticalSection(g) <=> snowballMu.w = g

\* the poll loop applies the votes of a response while the intake loop and
\* the handler both wait for the lock
C14_Witness ==
    /\ script = "node"
    /\ pc["poll"] = "RegisterVotes"
    /\ pc["intake"] = "lock"
    /\ pc["handler"] = "lock"
    /\ snowballMu.w = "poll"

----------------------------------------------------------------------------
(* C15 *)

\* C15 as stated: once quitCh is closed the three goroutines return, the
\* counter of doneWg reaches 0 without ever being negative, and stop() returns.
C15_StopReturns ==
    /\ [](script = "node" => doneWg >= 0)
    /\ (script = "node" /\ quitCh) ~>
          (/\ pc["poll"] = "returned"
           /\ pc["intake"] = "returned"
           /\ pc["server"] = "returned"
           /\ doneWg = 0
           /\ pc["main"] = "stopped")

----------------------------------------------------------------------------
(* C20 *)

\* C20 as stated: networkEndpoints is written only while networkEndpointsMu is
\* held exclusively and read only while it is held, so the poll loop never
\* reads the list while it is being written.
C20_EndpointListRaceFree ==
    script = "node" =>
        /\ At("refresher", "assign") => networkEndpointsMu.w = "refresher"
        /\ pc["poll"] \in {"len", "index"} =>
              ("poll" \in networkEndpointsMu.r \/ networkEndpointsMu.w = "poll")
        /\ ~(At("refresher", "assign") /\ pc["poll"] \in {"len", "index"})

====
